---- MODULE Spec2Model ----
(***************************************************************************)
(* Lead capture form of beacon-House/admissions-bch: the lead categorizer  *)
(* and the two form containers that route a session from its answers: the  *)
(* extended container (Step 1, 2, 2.5, 3) and the 2-page container         *)
(* (Page 1, Page 2A / 2B).  State is the zustand store, the container's    *)
(* component state, the async handlers suspended at an await, the pending  *)
(* evaluation timers and the webhook payloads handed to fetch.             *)
(***************************************************************************)
EXTENDS Integers, Sequences, FiniteSets, Bags, TLC

\* ------------------------------------------------------------------ bounds
\* handlers that may be suspended at an await at the same time
MaxInFlight == 2
\* back navigations per session
MaxBack == 1
\* webhook calls that fail per session
MaxFail == 1

\* --------------------------------------------------------------- constants
\* undefined / null / a key that was never set
None == "null"

GRADE_LEVELS == {"7_below", "8", "9", "10", "11", "12", "masters"}
FORM_FILLER_TYPES == {"parent", "student"}
SCHOLARSHIP_REQUIREMENTS ==
  {"scholarship_optional", "partial_scholarship", "full_scholarship"}
APPLICATION_PREPARATION_OPTIONS ==
  {"researching_now", "taken_exams_identified_universities", "undecided_need_help"}
TARGET_UNIVERSITIES_OPTIONS ==
  {"top_20_50", "top_50_100", "partner_university", "unsure"}
TARGET_GEOGRAPHIES == {"US", "UK", "Rest of World", "Need Guidance"}

\* the LeadCategory type the extended container is compiled against
LEAD_CATEGORIES ==
  {"BCH", "lum-l1", "lum-l2", "NURTURE", "masters-l1", "masters-l2", "DROP"}

\* the seven wire values of a category
WireCategories ==
  {"bch", "lum-l1", "lum-l2", "masters-l1", "masters-l2", "nurture", "drop"}

\* the inline list ['bch', 'lum-l1', 'lum-l2'] of the containers and of form.ts
QualifiedList == {"bch", "lum-l1", "lum-l2"}

\* String.prototype.toLowerCase on the strings a category can be
ToLowerCase(s) ==
  CASE s = "BCH" -> "bch"
    [] s = "NURTURE" -> "nurture"
    [] s = "DROP" -> "drop"
    [] OTHER -> s

\* ------------------------------------------------------------- categorizer
\* Masters sub-rules of determineLeadCategory
MastersCategory(applicationPreparation, targetUniversities) ==
  IF applicationPreparation = "undecided_need_help" \/ targetUniversities = "unsure"
    THEN "nurture"
  ELSE IF targetUniversities = "top_20_50" THEN "masters-l1"
  ELSE IF targetUniversities \in {"top_50_100", "partner_university"} THEN "masters-l2"
  ELSE "nurture"

NonUSGeographies == {"UK", "Rest of World", "Need Guidance"}

\* determineLeadCategory of lib/leadCategorization: the rules in priority
\* order, first match wins.  a is the argument list as a record; an argument
\* the caller leaves out is None (targetGeographies: the empty set).
determineLeadCategory(a) ==
  IF a.formFillerType = "student" THEN "nurture"
  ELSE IF a.gpaValue = "10" \/ a.percentageValue = "100" THEN "nurture"
  ELSE IF a.scholarshipRequirement = "full_scholarship" /\ a.currentGrade # "masters"
    THEN "nurture"
  ELSE IF a.currentGrade = "7_below" THEN "drop"
  ELSE IF a.currentGrade = "masters"
    THEN MastersCategory(a.applicationPreparation, a.targetUniversities)
  ELSE IF \/ /\ a.currentGrade \in {"8", "9", "10"}
             /\ a.scholarshipRequirement \in {"scholarship_optional", "partial_scholarship"}
          \/ /\ a.currentGrade = "11"
             /\ a.scholarshipRequirement \in {"scholarship_optional", "partial_scholarship"}
             /\ "US" \in a.targetGeographies
    THEN "bch"
  ELSE IF \/ /\ a.currentGrade = "11"
             /\ a.scholarshipRequirement = "scholarship_optional"
             /\ a.targetGeographies \cap NonUSGeographies # {}
          \/ /\ a.currentGrade = "12"
             /\ a.scholarshipRequirement = "scholarship_optional"
    THEN "lum-l1"
  ELSE IF \/ /\ a.currentGrade = "11"
             /\ a.scholarshipRequirement = "partial_scholarship"
             /\ a.targetGeographies \cap NonUSGeographies # {}
          \/ /\ a.currentGrade = "12"
             /\ a.scholarshipRequirement = "partial_scholarship"
    THEN "lum-l2"
  ELSE "nurture"

\* the member of the LeadCategory type (LEAD_CATEGORIES) a category is: the
\* extended container compares the categorizer's result with 'NURTURE'
TypedCategory(c) ==
  CHOOSE t \in LEAD_CATEGORIES : ToLowerCase(t) = c

\* ------------------------------------------------------------------- store
FormKeys ==
  {"formFillerType", "currentGrade", "scholarshipRequirement", "gpaValue",
   "percentageValue", "targetGeographies", "applicationPreparation",
   "targetUniversities", "lead_category", "parentName", "selectedDate",
   "selectedSlot", "extendedNurture", "counselling"}

\* formData.counselling of a session that booked nothing
NoCounselling == [selectedDate |-> None, selectedSlot |-> None]

\* formData.extendedNurture of a session that never answered Step 2.5
NoExtendedNurture ==
  [financialPlanning |-> None, gradeSpecificQuestion |-> None,
   parentalSupport |-> None, partialFundingApproach |-> None,
   nurtureSubcategory |-> None]

\* the object {} : no key set
EmptyData ==
  [k \in FormKeys |->
     CASE k = "targetGeographies" -> {}
       [] k = "counselling" -> NoCounselling
       [] k = "extendedNurture" -> NoExtendedNurture
       [] OTHER -> None]

\* { ...a, ...b } where b is an object with the keys keys
Spread(a, b, keys) == [k \in FormKeys |-> IF k \in keys THEN b[k] ELSE a[k]]

Page1Keys ==
  {"formFillerType", "currentGrade", "scholarshipRequirement", "gpaValue",
   "percentageValue", "targetGeographies"}
Page2AKeys == {"parentName", "selectedDate", "selectedSlot"}
Page2BKeys == {"parentName"}
Step1Keys == {"formFillerType", "currentGrade"}
Step2Keys ==
  {"scholarshipRequirement", "gpaValue", "percentageValue",
   "applicationPreparation", "targetUniversities"}

\* --------------------------------------------------------- form inputs
\* the academic value a form carries: gpaValue or percentageValue
GradeValues ==
  {[gpaValue |-> "8.5", percentageValue |-> None],
   [gpaValue |-> "10", percentageValue |-> None],
   [gpaValue |-> None, percentageValue |-> "100"]}

\* the target geography selections a session of the flow picks from
FlowGeographies == {{"US"}, {"UK"}, {"US", "Need Guidance"}}

\* InitialLeadCaptureData: the values Page 1 of the 2-page form can hold
InitialLeadCaptureData(geos) ==
  {[EmptyData EXCEPT !.formFillerType = f, !.currentGrade = g,
                     !.scholarshipRequirement = s, !.gpaValue = v.gpaValue,
                     !.percentageValue = v.percentageValue,
                     !.targetGeographies = t] :
     f \in FORM_FILLER_TYPES, g \in GRADE_LEVELS, s \in SCHOLARSHIP_REQUIREMENTS,
     v \in GradeValues, t \in geos}

\* the values Step 1 and Step 2 of the extended form can hold: the masters
\* form adds its own questions
ExtendedAnswers ==
  {[EmptyData EXCEPT !.formFillerType = f, !.currentGrade = g,
                     !.scholarshipRequirement = s, !.gpaValue = v.gpaValue,
                     !.percentageValue = v.percentageValue,
                     !.applicationPreparation = m.applicationPreparation,
                     !.targetUniversities = m.targetUniversities] :
     f \in FORM_FILLER_TYPES, g \in GRADE_LEVELS \ {"masters"},
     s \in SCHOLARSHIP_REQUIREMENTS, v \in GradeValues,
     m \in {[applicationPreparation |-> None, targetUniversities |-> None]}}
  \cup
  {[EmptyData EXCEPT !.formFillerType = f, !.currentGrade = "masters",
                     !.scholarshipRequirement = s, !.gpaValue = v.gpaValue,
                     !.percentageValue = v.percentageValue,
                     !.applicationPreparation = ap,
                     !.targetUniversities = tu] :
     f \in FORM_FILLER_TYPES, s \in SCHOLARSHIP_REQUIREMENTS, v \in GradeValues,
     ap \in APPLICATION_PREPARATION_OPTIONS, tu \in TARGET_UNIVERSITIES_OPTIONS}

\* QualifiedLeadData: the values Page 2A submits; its submit button is
\* disabled until a slot is picked
QualifiedLeadData ==
  {[EmptyData EXCEPT !.parentName = "parent", !.selectedDate = "Monday",
                     !.selectedSlot = "11 AM"]}

\* CounsellingData: the values Step 3 submits; date and slot are optional
CounsellingData ==
  {[selectedDate |-> None, selectedSlot |-> None],
   [selectedDate |-> "Monday", selectedSlot |-> None],
   [selectedDate |-> "Monday", selectedSlot |-> "11 AM"]}

\* DisqualifiedLeadData: the values Page 2B submits
DisqualifiedLeadData == {[EmptyData EXCEPT !.parentName = "parent"]}

\* an answer of Step 2.5 other than the ones the container tests for
OtherAnswer == "other"

\* ExtendedNurtureData: the values Step 2.5 submits
ExtendedNurtureData ==
  [financialPlanning : {"no_specific_plans", OtherAnswer},
   gradeSpecificQuestion : {"academics_focus", OtherAnswer},
   parentalSupport : {"would_join", OtherAnswer},
   partialFundingApproach : {"only_full_funding", "accept_loans"}]

\* --------------------------------------------------------------- state
VARIABLES
  variant,                  \* which container runs: "extended" or "twopage"
  answers,                  \* the values the user has entered in the forms
  currentStep,              \* store: "1", "2", "2.5", "3"
  formData,                 \* store: the merged answers and lead_category
  isSubmitting,             \* store
  isSubmitted,              \* store
  showEvaluationAnimation,  \* container state
  showNurtureAnimation,     \* container state (extended)
  evaluatedLeadCategory,    \* container state
  handlers,                 \* bag of the async handlers suspended at an await
  timers,                   \* pending setTimeout callbacks, by kind
  sent,                     \* webhook payloads handed to fetch, in order
  assigned,                 \* the latest categorization: answers and result
  backs,                    \* back navigations so far
  fails,                    \* failed webhook calls so far
  entered,                  \* the values the second-step form held when Back
                            \* was last pressed there (the form's own state)
  logged,                   \* the lead category diagnostics written to the
                            \* console (followed for the sanitizer alone)
  triggeredEvents           \* store: the pixel events tracked so far
                            \* (followed for the pixel events alone)

vars ==
  <<variant, answers, currentStep, formData, isSubmitting, isSubmitted,
    showEvaluationAnimation, showNurtureAnimation, evaluatedLeadCategory,
    handlers, timers, sent, assigned, backs, fails, entered, logged,
    triggeredEvents>>

store == <<currentStep, formData, isSubmitting, isSubmitted>>

NoAssignment == [profile |-> EmptyData, category |-> None, by |-> "none"]

Init ==
  /\ \/ variant = "twopage" /\ answers \in InitialLeadCaptureData(FlowGeographies)
     \/ variant = "extended" /\ answers \in ExtendedAnswers
  /\ currentStep = "1"
  /\ formData = EmptyData
  /\ isSubmitting = FALSE
  /\ isSubmitted = FALSE
  /\ showEvaluationAnimation = FALSE
  /\ showNurtureAnimation = FALSE
  /\ evaluatedLeadCategory = None
  /\ handlers = EmptyBag
  /\ timers = [evaluation |-> 0, nurture |-> 0]
  /\ sent = <<>>
  /\ assigned = NoAssignment
  /\ backs = 0
  /\ fails = 0
  /\ entered = EmptyData
  /\ logged = {}
  /\ triggeredEvents = <<>>

\* ------------------------------------------------------------ rendering
\* the container renders a form: not the thank-you page, not the
\* "Processing" page, not an evaluation animation
FormVisible ==
  /\ ~isSubmitted
  /\ ~isSubmitting
  /\ ~showEvaluationAnimation
  /\ ~showNurtureAnimation

\* 2-page container: which form the render shows
Page1Shown == variant = "twopage" /\ FormVisible /\ currentStep = "1"
\* a render that offers the booking form to nurture leads as well
Page2AShownToNurture ==
  /\ variant = "twopage" /\ FormVisible /\ currentStep = "2"
  /\ formData.lead_category \in QualifiedList \cup {"nurture"}

Page2AShown ==
  /\ variant = "twopage" /\ FormVisible /\ currentStep = "2"
  /\ formData.lead_category \in QualifiedList
Page2BShown ==
  /\ variant = "twopage" /\ FormVisible /\ currentStep = "2"
  /\ formData.lead_category \notin QualifiedList

\* ----------------------------------------------------- webhook payload
\* A JavaScript value as sanitizeLeadCategory sees it: whether it is falsy
\* (null, undefined, "", 0, false, NaN) and the characters of String(value).
JSValue(falsy, text) == [falsy |-> falsy, text |-> text]

\* the characters of the category strings
Letters(s) ==
  CASE s = "bch" -> <<"b", "c", "h">>
    [] s = "BCH" -> <<"B", "C", "H">>
    [] s = "lum-l1" -> <<"l", "u", "m", "-", "l", "1">>
    [] s = "lum-l2" -> <<"l", "u", "m", "-", "l", "2">>
    [] s = "nurture" -> <<"n", "u", "r", "t", "u", "r", "e">>
    [] s = "NURTURE" -> <<"N", "U", "R", "T", "U", "R", "E">>
    [] s = "masters-l1" -> <<"m", "a", "s", "t", "e", "r", "s", "-", "l", "1">>
    [] s = "masters-l2" -> <<"m", "a", "s", "t", "e", "r", "s", "-", "l", "2">>
    [] s = "drop" -> <<"d", "r", "o", "p">>
    [] s = "DROP" -> <<"D", "R", "O", "P">>

\* a category string held in the form data, as a JavaScript value
CategoryValue(s) ==
  IF s = None THEN JSValue(TRUE, <<>>) ELSE JSValue(FALSE, Letters(s))

WhiteSpace == {" ", "\t", "\n"}

\* the lower-case form of a character
LowerCaseOf(c) ==
  CASE c = "A" -> "a"
    [] c = "B" -> "b"
    [] c = "C" -> "c"
    [] c = "D" -> "d"
    [] c = "E" -> "e"
    [] c = "F" -> "f"
    [] c = "G" -> "g"
    [] c = "H" -> "h"
    [] c = "I" -> "i"
    [] c = "J" -> "j"
    [] c = "K" -> "k"
    [] c = "L" -> "l"
    [] c = "M" -> "m"
    [] c = "N" -> "n"
    [] c = "O" -> "o"
    [] c = "P" -> "p"
    [] c = "Q" -> "q"
    [] c = "R" -> "r"
    [] c = "S" -> "s"
    [] c = "T" -> "t"
    [] c = "U" -> "u"
    [] c = "V" -> "v"
    [] c = "W" -> "w"
    [] c = "X" -> "x"
    [] c = "Y" -> "y"
    [] c = "Z" -> "z"
    [] OTHER -> c

\* String.prototype.toLowerCase, character by character
StringToLowerCase(text) ==
  [i \in 1..Len(text) |->
     LowerCaseOf(text[i])]

\* cat.toLowerCase() of each member of LEAD_CATEGORIES
LowerCaseCategory == [cat \in LEAD_CATEGORIES |-> StringToLowerCase(Letters(cat))]

\* String.prototype.trim: white space removed at both ends
RECURSIVE StringTrimStart(_)
StringTrimStart(text) ==
  IF text # <<>> /\ Head(text) \in WhiteSpace
    THEN StringTrimStart(Tail(text))
    ELSE text

RECURSIVE StringTrimEnd(_)
StringTrimEnd(text) ==
  IF text # <<>> /\ text[Len(text)] \in WhiteSpace
    THEN StringTrimEnd(SubSeq(text, 1, Len(text) - 1))
    ELSE text

StringTrim(text) == StringTrimEnd(StringTrimStart(text))

\* sanitizeLeadCategory: null for a falsy value; else the member of
\* LEAD_CATEGORIES whose lower-case form equals the trimmed, lower-cased
\* String(category); null if there is none
sanitizeLeadCategory(category) ==
  IF category.falsy THEN None
  ELSE LET stringCategory == StringToLowerCase(StringTrim(category.text))
           matching == {cat \in LEAD_CATEGORIES :
                          LowerCaseCategory[cat] = stringCategory}
       IN IF matching = {} THEN None ELSE CHOOSE cat \in matching : TRUE

\* sanitizeLeadCategory of each value the form data can hold as
\* lead_category: unset, or a category in either spelling
SanitizedCategory ==
  [s \in {None} \cup WireCategories \cup LEAD_CATEGORIES |->
     sanitizeLeadCategory(CategoryValue(s))]

\* ['bch', 'lum-l1', 'lum-l2'].includes(sanitizedCategory || '')
PayloadIsQualified(sanitizedCategory) == sanitizedCategory \in QualifiedList

\* submitFormData: the payload built from data, step and isComplete
WebhookPayload(data, step, isComplete) ==
  LET sanitizedCategory == SanitizedCategory[data.lead_category]
      isQualifiedLead == PayloadIsQualified(sanitizedCategory)
      counsellingSlotPicked == data.selectedDate # None /\ data.selectedSlot # None
  IN [formFillerType |-> data.formFillerType,
      currentGrade |-> data.currentGrade,
      scholarshipRequirement |-> data.scholarshipRequirement,
      gpaValue |-> data.gpaValue,
      percentageValue |-> data.percentageValue,
      targetGeographies |-> data.targetGeographies,
      parentName |-> data.parentName,
      counsellingDate |-> IF isQualifiedLead THEN data.selectedDate ELSE None,
      counsellingTime |-> IF isQualifiedLead THEN data.selectedSlot ELSE None,
      counsellingSlotPicked |-> IF isQualifiedLead THEN counsellingSlotPicked ELSE FALSE,
      counselor_assigned |->
        IF isQualifiedLead
          THEN (IF sanitizedCategory = "bch" THEN "Viswanathan" ELSE "Karthik Lakshman")
          ELSE None,
      lead_category |-> sanitizedCategory,
      step_completed |-> step,
      is_qualified_lead |-> isQualifiedLead,
      page_completed |-> step,
      funnel_stage |->
        IF step = "1" THEN "initial_capture"
        ELSE IF isQualifiedLead THEN "counseling_booked" ELSE "contact_submitted",
      isComplete |-> isComplete]

\* ------------------------------------------------------------ handlers
Handler(kind, pc, data, closure, finalData) ==
  [kind |-> kind, pc |-> pc, data |-> data, formData |-> closure,
   finalData |-> finalData]

\* the handlers in flight with h added, with h gone, and with h moved on to g
Suspend(h) == handlers (+) SetToBag({h})
Finish(h) == handlers (-) SetToBag({h})
Resume(h, g) == (handlers (-) SetToBag({h})) (+) SetToBag({g})

\* how many handlers are in flight
InFlight == BagCardinality(handlers)

\* the values a form submits: the entered answers under the form's keys
FormValues(keys) == Spread(EmptyData, answers, keys)

\* ---------------------------------------------------- 2-page container
\* onSubmitPage1 with the filler type left out of the call: every form
\* is categorized as a parent's
Page1ArgumentsAsParent(data) ==
  [currentGrade |-> data.currentGrade,
   formFillerType |-> "parent",
   scholarshipRequirement |-> data.scholarshipRequirement,
   gpaValue |-> data.gpaValue,
   percentageValue |-> data.percentageValue,
   applicationPreparation |-> None,
   targetUniversities |-> None,
   targetGeographies |-> data.targetGeographies]

\* onSubmitPage1 with the thirteenth argument left out of the call
Page1ArgumentsNoGeographies(data) ==
  [currentGrade |-> data.currentGrade,
   formFillerType |-> data.formFillerType,
   scholarshipRequirement |-> data.scholarshipRequirement,
   gpaValue |-> data.gpaValue,
   percentageValue |-> data.percentageValue,
   applicationPreparation |-> None,
   targetUniversities |-> None,
   targetGeographies |-> {}]

\* the arguments onSubmitPage1 passes to determineLeadCategory
Page1Arguments(data) ==
  [currentGrade |-> data.currentGrade,
   formFillerType |-> data.formFillerType,
   scholarshipRequirement |-> data.scholarshipRequirement,
   gpaValue |-> data.gpaValue,
   percentageValue |-> data.percentageValue,
   applicationPreparation |-> None,
   targetUniversities |-> None,
   targetGeographies |-> data.targetGeographies]

\* onSubmitPage1 with the grade 7 literal spelled as the LeadCategory type
\* of the extended container spells it
Page1CategoryTyped(data) ==
  IF data.currentGrade = "7_below" THEN "DROP"
  ELSE determineLeadCategory(Page1Arguments(data))

\* the category onSubmitPage1 decides for the submitted values
Page1Category(data) ==
  IF data.currentGrade = "7_below" THEN "drop"
  ELSE determineLeadCategory(Page1Arguments(data))

\* onSubmitPage1, up to its first await (trackPageCompletion): the values
\* pass validateForm and are merged into the store.  (Values that fail
\* validateForm end in the catch block, which changes nothing.)
onSubmitPage1(data) ==
  /\ Page1Shown
  /\ InFlight < MaxInFlight
  /\ formData' = Spread(formData, data, Page1Keys)
  /\ handlers' = Suspend(Handler("page1", "trackPageCompletion", data, formData, EmptyData))
  /\ UNCHANGED <<variant, triggeredEvents, answers, entered, logged, currentStep, isSubmitting, isSubmitted,
                 showEvaluationAnimation, showNurtureAnimation,
                 evaluatedLeadCategory, timers, sent, assigned, backs, fails>>

\* a tracking call that rejected would take its caller to the catch block
TrackingCallRejects == TRUE

\* the tracking calls swallow their errors: the promise the handler awaits
\* resolves whether the save succeeded or failed
trackPageCompletionRejects == FALSE

\* onSubmitPage1 resumed after trackPageCompletion: the category is decided
\* and the session is routed
onSubmitPage1Route(h) ==
  /\ h.kind = "page1" /\ h.pc = "trackPageCompletion"
  /\ IF trackPageCompletionRejects
       THEN /\ isSubmitting' = FALSE
            /\ handlers' = Finish(h)
            /\ UNCHANGED <<currentStep, formData, showEvaluationAnimation,
                           evaluatedLeadCategory, timers, assigned>>
     ELSE
     LET data == h.data
         leadCategory == Page1Category(data)
         withCategory == [EmptyData EXCEPT !.lead_category = leadCategory]
         finalData ==
           IF data.currentGrade = "7_below"
             THEN Spread(Spread(h.formData, data, Page1Keys), withCategory, {"lead_category"})
             ELSE Spread(Spread(EmptyData, data, Page1Keys), withCategory, {"lead_category"})
         isQualified == leadCategory \in QualifiedList
     IN /\ formData' = [formData EXCEPT !.lead_category = leadCategory]
        /\ assigned' = [profile |-> data, category |-> leadCategory, by |-> "page1"]
        /\ evaluatedLeadCategory' =
             IF data.currentGrade = "7_below" THEN evaluatedLeadCategory ELSE leadCategory
        /\ IF data.currentGrade = "7_below" \/ data.formFillerType = "student"
             THEN /\ isSubmitting' = TRUE
                  /\ handlers' = Resume(h,
                       Handler("page1", "trackFormSubmission", data, h.formData, finalData))
                  /\ UNCHANGED <<currentStep, showEvaluationAnimation, timers>>
           ELSE IF isQualified
             THEN /\ isSubmitting' = TRUE
                  /\ showEvaluationAnimation' = TRUE
                  /\ timers' = [timers EXCEPT !.evaluation = @ + 1]
                  /\ handlers' = Finish(h)
                  /\ UNCHANGED currentStep
           ELSE /\ currentStep' = "2"
                /\ handlers' = Finish(h)
                /\ UNCHANGED <<isSubmitting, showEvaluationAnimation, timers>>
  /\ UNCHANGED <<variant, triggeredEvents, answers, entered, logged, isSubmitted, showNurtureAnimation, sent, backs, fails>>

\* onSubmitPage2A up to its first await (trackFormSubmission)
onSubmitPage2A(data) ==
  /\ Page2AShown
  /\ InFlight < MaxInFlight
  /\ isSubmitting' = TRUE
  /\ handlers' = Suspend(Handler("page2A", "trackFormSubmission", data, formData,
               Spread(formData, data, Page2AKeys)))
  /\ UNCHANGED <<variant, triggeredEvents, answers, entered, logged, currentStep, formData, isSubmitted,
                 showEvaluationAnimation, showNurtureAnimation,
                 evaluatedLeadCategory, timers, sent, assigned, backs, fails>>

\* onSubmitPage2B up to its first await (trackFormSubmission)
onSubmitPage2B(data) ==
  /\ Page2BShown
  /\ InFlight < MaxInFlight
  /\ isSubmitting' = TRUE
  /\ handlers' = Suspend(Handler("page2B", "trackFormSubmission", data, formData,
               Spread(formData, data, Page2BKeys)))
  /\ UNCHANGED <<variant, triggeredEvents, answers, entered, logged, currentStep, formData, isSubmitted,
                 showEvaluationAnimation, showNurtureAnimation,
                 evaluatedLeadCategory, timers, sent, assigned, backs, fails>>

\* the step argument a handler of the 2-page container passes to
\* submitFormData
SubmitStep(kind) == IF kind = "page1" THEN "1" ELSE "2"

\* a handler resumed after trackFormSubmission: the pixel events fire and
\* submitFormData builds the final payload and hands it to fetch
CallSubmitFormData(h) ==
  /\ h.pc = "trackFormSubmission"
  /\ sent' = Append(sent, WebhookPayload(h.finalData, SubmitStep(h.kind), TRUE))
  /\ handlers' = Resume(h, [h EXCEPT !.pc = "submitFormData"])
  /\ UNCHANGED <<variant, triggeredEvents, answers, entered, logged, currentStep, formData, isSubmitting, isSubmitted,
                 showEvaluationAnimation, showNurtureAnimation,
                 evaluatedLeadCategory, timers, assigned, backs, fails>>

\* a handler resumed after submitFormData returned: the response was ok
SubmitFormDataReturns(h) ==
  /\ h.pc = "submitFormData"
  /\ isSubmitting' = FALSE
  /\ isSubmitted' = TRUE
  /\ handlers' = Finish(h)
  /\ UNCHANGED <<variant, triggeredEvents, answers, entered, logged, currentStep, formData, showEvaluationAnimation,
                 showNurtureAnimation, evaluatedLeadCategory, timers, sent,
                 assigned, backs, fails>>

\* a catch block that leaves the flag set
SubmittingLeftSet == TRUE

\* the catch blocks end with setSubmitting(false)
SubmittingAfterCatch == FALSE

\* a handler resumed in its catch block: submitFormData threw (the response
\* was not ok, or fetch rejected)
SubmitFormDataThrows(h) ==
  /\ h.pc = "submitFormData"
  /\ fails < MaxFail
  /\ fails' = fails + 1
  /\ isSubmitting' = SubmittingAfterCatch
  /\ handlers' = Finish(h)
  /\ UNCHANGED <<variant, triggeredEvents, answers, entered, logged, currentStep, formData, isSubmitted,
                 showEvaluationAnimation, showNurtureAnimation,
                 evaluatedLeadCategory, timers, sent, assigned, backs>>

\* the 10 second timer of the evaluation animation fires:
\* handleEvaluationComplete
handleEvaluationComplete ==
  /\ timers.evaluation > 0
  /\ timers' = [timers EXCEPT !.evaluation = @ - 1]
  /\ showEvaluationAnimation' = FALSE
  /\ isSubmitting' = FALSE
  /\ currentStep' = IF variant = "twopage" THEN "2" ELSE "3"
  /\ UNCHANGED <<variant, triggeredEvents, answers, entered, logged, formData, isSubmitted, showNurtureAnimation,
                 evaluatedLeadCategory, handlers, sent, assigned, backs, fails>>

\* onBack of Page 2A / Page 2B: handleBack calls onBack, which is
\* setStep(1).  data is what the form holds at that moment: nothing yet, or
\* the values typed so far; the form is unmounted and nothing reads them.
onBackPage2(data) ==
  /\ \/ Page2AShown /\ data \in QualifiedLeadData \cup {EmptyData}
     \/ Page2BShown /\ data \in DisqualifiedLeadData \cup {EmptyData}
  /\ backs < MaxBack
  /\ backs' = backs + 1
  /\ entered' = data
  /\ currentStep' = "1"
  /\ UNCHANGED <<variant, triggeredEvents, answers, logged, formData, isSubmitting, isSubmitted,
                 showEvaluationAnimation, showNurtureAnimation,
                 evaluatedLeadCategory, handlers, timers, sent, assigned, fails>>

\* -------------------------------------------------- extended container
\* which form the extended container's render shows
Step1Shown == variant = "extended" /\ FormVisible /\ currentStep = "1"
Step2Shown == variant = "extended" /\ FormVisible /\ currentStep = "2"
Step25Shown == variant = "extended" /\ FormVisible /\ currentStep = "2.5"
Step3Shown == variant = "extended" /\ FormVisible /\ currentStep = "3"

\* the arguments onSubmitStep1 passes to determineLeadCategory for grade 7
\* or below: grade, filler and two defaults
Step1Arguments(data) ==
  [currentGrade |-> data.currentGrade,
   formFillerType |-> data.formFillerType,
   scholarshipRequirement |-> "scholarship_optional",
   gpaValue |-> None,
   percentageValue |-> None,
   applicationPreparation |-> None,
   targetUniversities |-> None,
   targetGeographies |-> {}]

\* an argument list that uses the regular call for every grade, masters
\* included
Step2ArgumentsRegularCall(finalData) ==
  [currentGrade |-> finalData.currentGrade,
   formFillerType |-> finalData.formFillerType,
   scholarshipRequirement |-> finalData.scholarshipRequirement,
   gpaValue |-> None,
   percentageValue |-> None,
   applicationPreparation |-> None,
   targetUniversities |-> None,
   targetGeographies |-> {}]

\* the arguments onSubmitStep2 passes to determineLeadCategory: the masters
\* call passes the grade values and the masters answers, the regular call
\* stops at targetUniversityRank
Step2Arguments(finalData) ==
  IF finalData.currentGrade = "masters"
    THEN [currentGrade |-> finalData.currentGrade,
          formFillerType |-> finalData.formFillerType,
          scholarshipRequirement |-> finalData.scholarshipRequirement,
          gpaValue |-> finalData.gpaValue,
          percentageValue |-> finalData.percentageValue,
          applicationPreparation |-> finalData.applicationPreparation,
          targetUniversities |-> finalData.targetUniversities,
          targetGeographies |-> {}]
    ELSE [currentGrade |-> finalData.currentGrade,
          formFillerType |-> finalData.formFillerType,
          scholarshipRequirement |-> finalData.scholarshipRequirement,
          gpaValue |-> None,
          percentageValue |-> None,
          applicationPreparation |-> None,
          targetUniversities |-> None,
          targetGeographies |-> {}]

\* the category onSubmitStep1 decides for grade 7 or below
Step1Category(data) == TypedCategory(determineLeadCategory(Step1Arguments(data)))

\* the category onSubmitStep2 decides
Step2Category(finalData) ==
  TypedCategory(determineLeadCategory(Step2Arguments(finalData)))

\* onSubmitStep1: grade 7 or below is categorized and submitted from
\* Step 1 (the handler then waits for submitFormData), any other grade
\* moves to Step 2
onSubmitStep1(data) ==
  /\ Step1Shown
  /\ InFlight < MaxInFlight
  /\ IF data.currentGrade = "7_below"
       THEN LET leadCategory == Step1Category(data)
                finalData == [Spread(EmptyData, data, Step1Keys)
                                EXCEPT !.lead_category = leadCategory]
            IN /\ isSubmitting' = TRUE
               /\ formData' = [Spread(formData, data, Step1Keys)
                                 EXCEPT !.lead_category = leadCategory]
               /\ assigned' = [profile |-> data, category |-> leadCategory,
                               by |-> "step1"]
               /\ sent' = Append(sent, WebhookPayload(finalData, "1", TRUE))
               /\ handlers' = Suspend(Handler("step1", "submitFormData", data, formData, finalData))
               /\ UNCHANGED currentStep
       ELSE /\ formData' = Spread(formData, data, Step1Keys)
            /\ currentStep' = "2"
            /\ UNCHANGED <<isSubmitting, assigned, sent, handlers>>
  /\ UNCHANGED <<variant, triggeredEvents, answers, entered, logged, isSubmitted, showEvaluationAnimation,
                 showNurtureAnimation, evaluatedLeadCategory, timers, backs, fails>>

\* a branch test that sends every lead but a dropped one to the nurture
\* animation
IsNurtureLeadUnlessDrop(leadCategory) == leadCategory # "DROP"

\* onSubmitStep2: leadCategory === 'NURTURE'
IsNurtureLead(leadCategory) == leadCategory = "NURTURE"

\* onSubmitStep2: the category is decided from the merged answers, then
\* the nurture animation (towards Step 2.5) or the evaluation animation
\* (towards Step 3) starts with its 10 second timer
onSubmitStep2(data) ==
  /\ Step2Shown
  /\ LET finalData == Spread(formData, data, Step2Keys)
         leadCategory == Step2Category(finalData)
     IN /\ evaluatedLeadCategory' = leadCategory
        /\ formData' = [finalData EXCEPT !.lead_category = leadCategory]
        /\ assigned' = [profile |-> finalData, category |-> leadCategory,
                        by |-> "step2"]
        /\ isSubmitting' = TRUE
        /\ IF IsNurtureLead(leadCategory)
             THEN /\ showNurtureAnimation' = TRUE
                  /\ timers' = [timers EXCEPT !.nurture = @ + 1]
                  /\ UNCHANGED showEvaluationAnimation
             ELSE /\ showEvaluationAnimation' = TRUE
                  /\ timers' = [timers EXCEPT !.evaluation = @ + 1]
                  /\ UNCHANGED showNurtureAnimation
  /\ UNCHANGED <<variant, triggeredEvents, answers, entered, logged, currentStep, isSubmitted, handlers, sent,
                 backs, fails>>

\* the 10 second timer of the nurture animation fires
nurtureAnimationComplete ==
  /\ timers.nurture > 0
  /\ timers' = [timers EXCEPT !.nurture = @ - 1]
  /\ showNurtureAnimation' = FALSE
  /\ isSubmitting' = FALSE
  /\ currentStep' = "2.5"
  /\ UNCHANGED <<variant, triggeredEvents, answers, entered, logged, formData, isSubmitted, showEvaluationAnimation,
                 evaluatedLeadCategory, handlers, sent, assigned, backs, fails>>

\* onSubmitExtendedNurture: whether the answers of Step 2.5 open the
\* counselling form
qualifiesForBooking(filler, data) ==
  IF filler = "parent"
    THEN /\ data.financialPlanning # "no_specific_plans"
         /\ data.gradeSpecificQuestion # "academics_focus"
    ELSE /\ data.parentalSupport = "would_join"
         /\ data.partialFundingApproach # "only_full_funding"
         /\ data.gradeSpecificQuestion # "academics_focus"

\* onSubmitExtendedNurture: a booking lead moves to Step 3; any other is
\* handed to submitFormData, which is not awaited, and marked submitted
onSubmitExtendedNurture(data) ==
  /\ Step25Shown
  /\ LET qualifies == qualifiesForBooking(formData.formFillerType, data)
         subcategory == IF qualifies THEN "nurture-success" ELSE "nurture-no-booking"
         extendedNurture ==
           [financialPlanning |-> data.financialPlanning,
            gradeSpecificQuestion |-> data.gradeSpecificQuestion,
            parentalSupport |-> data.parentalSupport,
            partialFundingApproach |-> data.partialFundingApproach,
            nurtureSubcategory |-> subcategory]
         finalData == [formData EXCEPT !.extendedNurture = extendedNurture]
     IN /\ formData' = finalData
        /\ IF qualifies
             THEN /\ currentStep' = "3"
                  /\ UNCHANGED <<isSubmitting, isSubmitted, sent>>
             ELSE /\ sent' = Append(sent, WebhookPayload(finalData, "2.5", TRUE))
                  /\ isSubmitting' = FALSE
                  /\ isSubmitted' = TRUE
                  /\ UNCHANGED currentStep
  /\ UNCHANGED <<variant, triggeredEvents, answers, entered, logged, showEvaluationAnimation, showNurtureAnimation,
                 evaluatedLeadCategory, handlers, timers, assigned, backs, fails>>

\* onSubmitStep3: the counselling slot is added to the final data and the
\* handler waits for submitFormData
onSubmitStep3(data) ==
  /\ Step3Shown
  /\ InFlight < MaxInFlight
  /\ LET finalData ==
           [formData EXCEPT !.counselling =
              [selectedDate |-> data.selectedDate, selectedSlot |-> data.selectedSlot]]
     IN /\ isSubmitting' = TRUE
        /\ sent' = Append(sent, WebhookPayload(finalData, "3", TRUE))
        /\ handlers' = Suspend(Handler("step3", "submitFormData", data, formData, finalData))
  /\ UNCHANGED <<variant, triggeredEvents, answers, entered, logged, currentStep, formData, isSubmitted,
                 showEvaluationAnimation, showNurtureAnimation,
                 evaluatedLeadCategory, timers, assigned, backs, fails>>

\* onBack of Step 2 (setStep(1)) and of Step 2.5 (setStep(2)).  data is
\* what the Step 2 form holds at that moment: nothing yet, or the values
\* typed so far; the form is unmounted and nothing reads them.
onBackStep2(data) ==
  /\ \/ Step2Shown /\ data \in {FormValues(Step2Keys), EmptyData}
     \/ Step25Shown /\ data = EmptyData
  /\ backs < MaxBack
  /\ backs' = backs + 1
  /\ entered' = IF currentStep = "2" THEN data ELSE entered
  /\ currentStep' = IF currentStep = "2" THEN "1" ELSE "2"
  /\ UNCHANGED <<variant, triggeredEvents, answers, logged, formData, isSubmitting, isSubmitted,
                 showEvaluationAnimation, showNurtureAnimation,
                 evaluatedLeadCategory, handlers, timers, sent, assigned, fails>>

Next ==
  \/ onSubmitPage1(FormValues(Page1Keys))
  \/ \E h \in BagToSet(handlers) : onSubmitPage1Route(h)
  \/ \E data \in QualifiedLeadData : onSubmitPage2A(data)
  \/ \E data \in DisqualifiedLeadData : onSubmitPage2B(data)
  \/ \E h \in BagToSet(handlers) : CallSubmitFormData(h)
  \/ \E h \in BagToSet(handlers) : SubmitFormDataReturns(h)
  \/ \E h \in BagToSet(handlers) : SubmitFormDataThrows(h)
  \/ handleEvaluationComplete
  \/ \E data \in QualifiedLeadData \cup DisqualifiedLeadData \cup {EmptyData} :
       onBackPage2(data)
  \/ onSubmitStep1(FormValues(Step1Keys))
  \/ onSubmitStep2(FormValues(Step2Keys))
  \/ nurtureAnimationComplete
  \/ \E data \in ExtendedNurtureData : onSubmitExtendedNurture(data)
  \/ \E data \in CounsellingData : onSubmitStep3(data)
  \/ \E data \in {FormValues(Step2Keys), EmptyData} : onBackStep2(data)

Spec == Init /\ [][Next]_vars

\* ------------------------------------------------- the categorizer alone
\* pixel.ts isSpamLead
isSpamLead(data) == data.gpaValue = "10" \/ data.percentageValue = "100"

\* a qualification test that looks at the grade alone
wouldQualifyByGrade(data) == data.currentGrade \in {"8", "9", "10", "11", "12"}

\* pixel.ts wouldStudentQualifyAsParent: the profile meets the criteria of
\* bch, lum-l1 or lum-l2
wouldStudentQualifyAsParent(data) ==
  \/ /\ data.currentGrade \in {"8", "9", "10"}
     /\ data.scholarshipRequirement \in {"scholarship_optional", "partial_scholarship"}
  \/ /\ data.currentGrade = "11"
     /\ data.scholarshipRequirement \in {"scholarship_optional", "partial_scholarship"}
     /\ "US" \in data.targetGeographies
  \/ /\ data.currentGrade = "11"
     /\ data.scholarshipRequirement = "scholarship_optional"
     /\ \E geo \in data.targetGeographies : geo \in {"UK", "Rest of World", "Need Guidance"}
  \/ /\ data.currentGrade = "12"
     /\ data.scholarshipRequirement = "scholarship_optional"
  \/ /\ data.currentGrade = "11"
     /\ data.scholarshipRequirement = "partial_scholarship"
     /\ \E geo \in data.targetGeographies : geo \in {"UK", "Rest of World", "Need Guidance"}
  \/ /\ data.currentGrade = "12"
     /\ data.scholarshipRequirement = "partial_scholarship"

\* every well-typed lead profile: any filler, grade, scholarship, grade
\* value, set of target geographies and masters answers (or none); the
\* empty set of geographies is a call that leaves the argument out
LeadProfiles ==
  {[EmptyData EXCEPT !.formFillerType = f, !.currentGrade = g,
                     !.scholarshipRequirement = s, !.gpaValue = v.gpaValue,
                     !.percentageValue = v.percentageValue,
                     !.targetGeographies = t,
                     !.applicationPreparation = ap,
                     !.targetUniversities = tu] :
     f \in FORM_FILLER_TYPES, g \in GRADE_LEVELS, s \in SCHOLARSHIP_REQUIREMENTS,
     v \in GradeValues, t \in SUBSET TARGET_GEOGRAPHIES,
     ap \in APPLICATION_PREPARATION_OPTIONS \cup {None},
     tu \in TARGET_UNIVERSITIES_OPTIONS \cup {None}}

\* a call of determineLeadCategory with every argument of the profile
AllArguments(data) ==
  [currentGrade |-> data.currentGrade,
   formFillerType |-> data.formFillerType,
   scholarshipRequirement |-> data.scholarshipRequirement,
   gpaValue |-> data.gpaValue,
   percentageValue |-> data.percentageValue,
   applicationPreparation |-> data.applicationPreparation,
   targetUniversities |-> data.targetUniversities,
   targetGeographies |-> data.targetGeographies]

InitCategorize ==
  /\ variant = "categorizer"
  /\ answers \in LeadProfiles
  /\ currentStep = "1"
  /\ formData = EmptyData
  /\ isSubmitting = FALSE
  /\ isSubmitted = FALSE
  /\ showEvaluationAnimation = FALSE
  /\ showNurtureAnimation = FALSE
  /\ evaluatedLeadCategory = None
  /\ handlers = EmptyBag
  /\ timers = [evaluation |-> 0, nurture |-> 0]
  /\ sent = <<>>
  /\ assigned = NoAssignment
  /\ backs = 0
  /\ fails = 0
  /\ entered = EmptyData
  /\ logged = {}
  /\ triggeredEvents = <<>>

\* determineLeadCategory applied to the profile
categorize ==
  /\ assigned' = [profile |-> answers,
                  category |-> determineLeadCategory(AllArguments(answers)),
                  by |-> "determineLeadCategory"]
  /\ UNCHANGED <<variant, triggeredEvents, answers, entered, logged, currentStep, formData, isSubmitting, isSubmitted,
                 showEvaluationAnimation, showNurtureAnimation,
                 evaluatedLeadCategory, handlers, timers, sent, backs, fails>>

\* the initial categorization of Page 1 applied to the profile
categorizePage1 ==
  /\ assigned' = [profile |-> answers,
                  category |-> Page1Category(answers),
                  by |-> "page1"]
  /\ UNCHANGED <<variant, triggeredEvents, answers, entered, logged, currentStep, formData, isSubmitting, isSubmitted,
                 showEvaluationAnimation, showNurtureAnimation,
                 evaluatedLeadCategory, handlers, timers, sent, backs, fails>>

NextCategorize ==
  \/ categorize
  \/ categorizePage1

SpecCategorize == InitCategorize /\ [][NextCategorize]_vars

\* ----------------------------------------- sanitizeLeadCategory alone
\* the longest string of RawAlphabet that is tried
MaxRawLen == 4

\* characters that spell bch in some casing, white space, and a stranger
RawAlphabet == {" ", "B", "b", "c", "H", "x"}

\* the values data.lead_category is drawn from: every string over
\* RawAlphabet up to MaxRawLen, every member of LEAD_CATEGORIES as it is, in
\* lower case and padded with white space, unknown names, the number 42, an
\* object, and a falsy value
RawCategories ==
  {JSValue(FALSE, text) :
     text \in UNION {[1..n -> RawAlphabet] : n \in 0..MaxRawLen}}
  \cup {JSValue(FALSE, Letters(cat)) : cat \in LEAD_CATEGORIES}
  \cup {JSValue(FALSE, LowerCaseCategory[cat]) : cat \in LEAD_CATEGORIES}
  \cup {JSValue(FALSE, <<" ", "\t">> \o Letters(cat) \o <<"\n">>) : cat \in LEAD_CATEGORIES}
  \cup {JSValue(FALSE, <<"p", "r", "e", "m", "i", "u", "m">>),
        JSValue(FALSE, <<"m", "a", "s", "t", "e", "r", "s">>),
        JSValue(FALSE, <<"4", "2">>),
        JSValue(FALSE, <<"[", "o", "b", "j", "e", "c", "t", " ",
                         "O", "b", "j", "e", "c", "t", "]">>),
        JSValue(TRUE, <<>>)}

\* submitFormData, the fields it derives from data.lead_category
CategoryFields(category) ==
  LET sanitizedCategory == sanitizeLeadCategory(category)
      isQualifiedLead == PayloadIsQualified(sanitizedCategory)
  IN [lead_category |-> sanitizedCategory,
      is_qualified_lead |-> isQualifiedLead]

InitSanitize ==
  /\ variant = "sanitizer"
  /\ answers \in RawCategories
  /\ currentStep = "1"
  /\ formData = EmptyData
  /\ isSubmitting = FALSE
  /\ isSubmitted = FALSE
  /\ showEvaluationAnimation = FALSE
  /\ showNurtureAnimation = FALSE
  /\ evaluatedLeadCategory = None
  /\ handlers = EmptyBag
  /\ timers = [evaluation |-> 0, nurture |-> 0]
  /\ sent = <<>>
  /\ assigned = NoAssignment
  /\ backs = 0
  /\ fails = 0
  /\ entered = EmptyData
  /\ logged = {}
  /\ triggeredEvents = <<>>

\* sanitizeLeadCategory applied to the value
sanitize ==
  /\ assigned' = [profile |-> answers,
                  category |-> sanitizeLeadCategory(answers),
                  by |-> "sanitizeLeadCategory"]
  /\ UNCHANGED <<variant, triggeredEvents, answers, entered, logged, currentStep, formData, isSubmitting,
                 isSubmitted, showEvaluationAnimation, showNurtureAnimation,
                 evaluatedLeadCategory, handlers, timers, sent, backs, fails>>

\* validateLeadCategory: is the value, trimmed, spelled exactly as a member
\* of LEAD_CATEGORIES, and does it carry white space around it
validateLeadCategory(category) ==
  IF category.falsy
    THEN [isValid |-> FALSE, hasWarnings |-> FALSE]
  ELSE LET trimmedCategory == StringTrim(category.text)
       IN [isValid |-> \E cat \in LEAD_CATEGORIES : Letters(cat) = trimmedCategory,
           hasWarnings |-> category.text # trimmedCategory]

\* logLeadCategoryError: the diagnostics console.error receives
logLeadCategoryError(context, category) ==
  LET validation == validateLeadCategory(category)
  IN IF ~validation.isValid \/ validation.hasWarnings
       THEN {[context |-> context, category |-> category]}
       ELSE {}

\* validateFormDataConsistency(...).isValid for data with that grade and
\* the sanitized category
ConsistencyIsValid(currentGrade, sanitizedCategory) ==
  /\ validateLeadCategory(CategoryValue(sanitizedCategory)).isValid
  /\ sanitizedCategory \in {"masters-l1", "masters-l2"} => currentGrade = "masters"
  /\ sanitizedCategory = "drop" => currentGrade = "7_below"

\* the diagnostics of submitFormData
SubmitDiagnostics(originalCategory, currentGrade) ==
  LET sanitizedCategory == sanitizeLeadCategory(originalCategory)
  IN (IF ~originalCategory.falsy /\ sanitizedCategory = None
        THEN logLeadCategoryError("Webhook Submission - Invalid Category",
                                  originalCategory)
        ELSE {})
     \cup
     (IF ~ConsistencyIsValid(currentGrade, sanitizedCategory)
        THEN logLeadCategoryError("Webhook Submission - Data Consistency",
                                  CategoryValue(sanitizedCategory))
        ELSE {})

\* the diagnostics of trackFormStep: both sit inside
\* if (sanitizedCategory !== null)
TrackingDiagnostics(originalCategory, currentGrade) ==
  LET sanitizedCategory == sanitizeLeadCategory(originalCategory)
  IN IF sanitizedCategory # None
       THEN (IF ~originalCategory.falsy /\ sanitizedCategory = None
               THEN logLeadCategoryError("Form Tracking - Invalid Category",
                                         originalCategory)
               ELSE {})
            \cup
            (IF ~ConsistencyIsValid(currentGrade, sanitizedCategory)
               THEN logLeadCategoryError("Form Tracking - Data Consistency",
                                         CategoryValue(sanitizedCategory))
               ELSE {})
     ELSE {}

\* trackFormStep, the fields it derives from formData.lead_category
TrackingFields(category) ==
  [lead_category |-> sanitizeLeadCategory(category),
   step_type |-> "initial_lead_capture"]

\* submitFormData logs its diagnostics and builds the outbound record of
\* data with that lead_category
submitRawCategory ==
  /\ \A i \in 1..Len(sent) : "is_qualified_lead" \notin DOMAIN sent[i]
  /\ logged' = logged \cup SubmitDiagnostics(answers, None)
  /\ sent' = Append(sent, CategoryFields(answers))
  /\ UNCHANGED <<variant, triggeredEvents, answers, entered, currentStep, formData, isSubmitting,
                 isSubmitted, showEvaluationAnimation, showNurtureAnimation,
                 evaluatedLeadCategory, handlers, timers, assigned, backs, fails>>

\* trackFormStep logs its diagnostics and builds the tracking record of
\* formData with that lead_category
trackRawCategory ==
  /\ \A i \in 1..Len(sent) : "step_type" \notin DOMAIN sent[i]
  /\ logged' = logged \cup TrackingDiagnostics(answers, None)
  /\ sent' = Append(sent, TrackingFields(answers))
  /\ UNCHANGED <<variant, triggeredEvents, answers, entered, currentStep, formData, isSubmitting,
                 isSubmitted, showEvaluationAnimation, showNurtureAnimation,
                 evaluatedLeadCategory, handlers, timers, assigned, backs, fails>>

NextSanitize ==
  \/ sanitize
  \/ submitRawCategory
  \/ trackRawCategory

SpecSanitize == InitSanitize /\ [][NextSanitize]_vars

\* ---------------------------------------------------------------- claims
\* a categorization has happened in the session
Categorized == assigned.by # "none"

\* the wire spelling of the category the session was assigned
AssignedCategory == ToLowerCase(assigned.category)

\* the profile falls through every rule of the categorizer: a parent's
\* non-spam profile without full scholarship that is neither grade 7 or
\* below nor masters and meets no bch / lum-l1 / lum-l2 criteria, or a
\* masters profile of that kind that names no target universities
NoRuleMatches(data) ==
  /\ data.formFillerType = "parent"
  /\ ~isSpamLead(data)
  /\ data.currentGrade # "7_below"
  /\ IF data.currentGrade = "masters"
       THEN /\ data.applicationPreparation # "undecided_need_help"
            /\ data.targetUniversities = None
       ELSE /\ data.scholarshipRequirement # "full_scholarship"
            /\ ~wouldStudentQualifyAsParent(data)

C3_DropIffGrade7 ==
  Categorized =>
    (AssignedCategory = "drop" <=> assigned.profile.currentGrade = "7_below")

\* C4: a profile of grade 8 to masters with gpaValue 10 or percentageValue
\* 100 is categorized nurture by the flow, in both variants.
C4_SpamIsNurture ==
  (Categorized /\ assigned.profile.currentGrade # "7_below"
     /\ isSpamLead(assigned.profile))
    => AssignedCategory = "nurture"

\* C5: a parent's non-spam profile with scholarship optional or partial is
\* bch when its grade is 11 and US is among its target geographies,
\* whatever else the set holds, and when its grade is 8, 9 or 10, whatever
\* its geographies.
C5_BchFirst ==
  (/\ Categorized
   /\ assigned.profile.formFillerType = "parent"
   /\ ~isSpamLead(assigned.profile)
   /\ assigned.profile.scholarshipRequirement
        \in {"scholarship_optional", "partial_scholarship"}
   /\ \/ assigned.profile.currentGrade \in {"8", "9", "10"}
      \/ /\ assigned.profile.currentGrade = "11"
         /\ "US" \in assigned.profile.targetGeographies)
    => assigned.category = "bch"

\* C5 happens: Page 1 categorized a grade 11 parent profile with partial
\* scholarship that targets the US and all three other geographies as bch
C5_Witness ==
  /\ assigned.by = "page1"
  /\ assigned.profile.formFillerType = "parent"
  /\ assigned.profile.currentGrade = "11"
  /\ assigned.profile.scholarshipRequirement = "partial_scholarship"
  /\ assigned.profile.targetGeographies = TARGET_GEOGRAPHIES
  /\ ~isSpamLead(assigned.profile)
  /\ assigned.category = "bch"

\* C6: a session filled by a student never reaches Step 2.5 or the
\* counselling-booking step (Step 3 / Page 2A).
C6_StudentNeverBooks ==
  answers.formFillerType = "student" =>
    /\ currentStep \notin {"2.5", "3"}
    /\ ~Page2AShown

\* C7: Step 2.5 is reached only by nurture sessions of a parent in grade 11
\* or 12; a nurture lead of any other grade or filler never sees Step 2.5
\* or Step 3.
C7_ExtendedNurtureOnlyParent1112 ==
  variant = "extended" =>
    /\ currentStep = "2.5" =>
         /\ ToLowerCase(formData.lead_category) = "nurture"
         /\ formData.currentGrade \in {"11", "12"}
         /\ formData.formFillerType = "parent"
    /\ (/\ ToLowerCase(formData.lead_category) = "nurture"
        /\ ~(formData.currentGrade \in {"11", "12"} /\ formData.formFillerType = "parent"))
         => currentStep \notin {"2.5", "3"}

\* Page 2 of the 2-page form is on screen
Page2Shown == variant = "twopage" /\ FormVisible /\ currentStep = "2"

\* the payload carries no counselling slot
NoSlot(payload) ==
  /\ payload.counsellingDate = None
  /\ payload.counsellingTime = None
  /\ ~payload.counsellingSlotPicked

\* C8: in the 2-page flow, whenever Page 2 is shown it is Page 2A exactly
\* when the stored category (the one Page 1 assigned) is bch, lum-l1 or
\* lum-l2 and Page 2B otherwise, and no payload of a nurture, drop,
\* masters-l1 or masters-l2 lead carries a counselling slot.
C8_Page2AIffQualified ==
  variant = "twopage" =>
    /\ Page2Shown =>
         /\ formData.lead_category = assigned.category
         /\ Page2AShown <=> assigned.category \in {"bch", "lum-l1", "lum-l2"}
         /\ Page2BShown <=> ~Page2AShown
    /\ \A i \in 1..Len(sent) :
         ToLowerCase(sent[i].lead_category) \in {"nurture", "drop", "masters-l1", "masters-l2"}
           => NoSlot(sent[i])

\* C8 happens: a nurture lead is on Page 2B again after the webhook call
\* of its first Page 2B submission failed, the payload of that submission
\* carrying no slot
C8_Witness ==
  /\ Page2BShown
  /\ assigned.category = "nurture"
  /\ sent # <<>>
  /\ sent[1].step_completed = "2"
  /\ NoSlot(sent[1])

\* C9: a session whose Step 1 / Page 1 carries grade 7 or below never
\* leaves step 1, every record it sends is sent from step 1 with category
\* drop, and it is submitted only with such a record sent.
C9_Grade7SubmitsFromStep1 ==
  answers.currentGrade = "7_below" =>
    /\ currentStep = "1"
    /\ Categorized => AssignedCategory = "drop"
    /\ \A i \in 1..Len(sent) :
         /\ sent[i].step_completed = "1"
         /\ ToLowerCase(sent[i].lead_category) = "drop"
    /\ isSubmitted => sent # <<>>

\* C10: once isSubmitted is true, no step changes currentStep, the stored
\* answers and category, isSubmitting or isSubmitted.
C10_SubmittedIsImmutable ==
  [][isSubmitted => UNCHANGED store]_vars

\* C11: a second trigger of a submit control is a no-op: the session sends
\* at most one final submission to the webhook, beyond the retries that
\* follow a failed webhook call.
C11_OneFinalSubmission ==
  Len(sent) <= fails + 1

\* the session has answered the extended-nurture step
ExtendedNurtureApplied == formData.extendedNurture.nurtureSubcategory # None

\* C12: the extended-nurture step is shown and applied only to a lead whose
\* category is nurture, the category after it is nurture or lum-l2, and a
\* lead of any other category never gets the step.
C12_RecategorizationLegal ==
  variant = "extended" =>
    /\ currentStep = "2.5" => ToLowerCase(formData.lead_category) = "nurture"
    /\ ExtendedNurtureApplied =>
         /\ AssignedCategory = "nurture"
         /\ ToLowerCase(formData.lead_category) \in {"nurture", "lum-l2"}
    /\ (Categorized /\ AssignedCategory # "nurture") =>
         /\ ~ExtendedNurtureApplied
         /\ formData.lead_category = assigned.category

\* C12 happens: a nurture lead answered Step 2.5 and moved on to Step 3
C12_Witness ==
  /\ variant = "extended"
  /\ currentStep = "3"
  /\ ExtendedNurtureApplied
  /\ formData.lead_category = "NURTURE"

\* C13: once a parent has completed Step 2.5, the funding approach alone
\* decides the outcome: accept_loans or affordable_alternatives makes the
\* lead lum-l2 and shows Step 3, defer_scholarships or only_full_funding
\* keeps it nurture and submits it without Step 3.
C13_FundingDecidesStep25 ==
  (/\ variant = "extended"
   /\ formData.formFillerType = "parent"
   /\ ExtendedNurtureApplied) =>
    IF formData.extendedNurture.partialFundingApproach
         \in {"accept_loans", "affordable_alternatives"}
      THEN /\ ToLowerCase(formData.lead_category) = "lum-l2"
           /\ currentStep = "3"
      ELSE /\ ToLowerCase(formData.lead_category) = "nurture"
           /\ currentStep = "2.5"
           /\ isSubmitted

FirstStepKeys == IF variant = "twopage" THEN Page1Keys ELSE Step1Keys
SecondStepKeys == IF variant = "twopage" THEN Page2AKeys ELSE Step2Keys

\* C15: after Back from the second step to Step 1, also once the user has
\* advanced again, every value that was entered on the second step is in
\* the stored profile, and the stored Step 1 answers are the ones given.
C15_BackKeepsSecondStep ==
  (backs > 0 /\ currentStep \in {"1", "2"}) =>
    /\ \A k \in SecondStepKeys : entered[k] # None => formData[k] = entered[k]
    /\ \A k \in FirstStepKeys : formData[k] = answers[k]

\* the category of an outbound record in the categorizer's spelling
RecordCategory(payload) == ToLowerCase(payload.lead_category)

\* C16: in every record submitFormData builds, is_qualified_lead is true
\* exactly when the lead category is bch, lum-l1 or lum-l2.
C16_QualifiedFlagMatchesCategory ==
  \A i \in 1..Len(sent) :
    sent[i].is_qualified_lead <=> RecordCategory(sent[i]) \in {"bch", "lum-l1", "lum-l2"}

\* CounsellingForm / QualifiedLeadForm: the counselor the page shows
counselorName(leadCategory) ==
  IF leadCategory = "bch" THEN "Viswanathan" ELSE "Karthik Lakshman"

\* the counselor of a category: Viswanathan for bch, Karthik Lakshman for
\* lum-l1 and lum-l2, none otherwise
CounselorOf(category) ==
  IF category = "bch" THEN "Viswanathan"
  ELSE IF category \in {"lum-l1", "lum-l2"} THEN "Karthik Lakshman"
  ELSE None

\* C17: the counselor in every outbound record is the counselor of the
\* record's category, and the counselling page (Page 2A, Step 3) shows
\* that same counselor.
C17_CounselorMatchesCategory ==
  /\ \A i \in 1..Len(sent) :
       sent[i].counselor_assigned = CounselorOf(RecordCategory(sent[i]))
  /\ (Page2AShown \/ Step3Shown) =>
       counselorName(formData.lead_category)
         = CounselorOf(ToLowerCase(formData.lead_category))

\* C18: the final record of a session (isComplete) carries funnel_stage
\* counseling_booked for a bch, lum-l1 or lum-l2 lead and contact_submitted
\* for any other, whichever step sends it; initial_capture occurs only in
\* records that are not final.
C18_FinalFunnelStage ==
  \A i \in 1..Len(sent) :
    /\ sent[i].isComplete =>
         sent[i].funnel_stage =
           IF RecordCategory(sent[i]) \in {"bch", "lum-l1", "lum-l2"}
             THEN "counseling_booked"
             ELSE "contact_submitted"
    /\ sent[i].funnel_stage = "initial_capture" => ~sent[i].isComplete

\* C19: lead_category in every outbound record is null or one of the seven
\* lower-case wire strings.
C19_WireCategoryOnly ==
  \A i \in 1..Len(sent) : sent[i].lead_category \in WireCategories \cup {None}

\* the value names a category: trimmed and lower-cased it is a wire string
NamesCategory(value, c) ==
  ~value.falsy /\ StringToLowerCase(StringTrim(value.text)) = Letters(c)

\* C20: sanitizeLeadCategory returns for every value; for a value that names
\* a category after trimming and ignoring case it returns that category,
\* and for any other non-empty value the outbound record carries the safe
\* default nurture.
C20_InvalidBecomesNurture ==
  variant = "sanitizer" =>
    /\ assigned.by = "sanitizeLeadCategory" =>
         /\ assigned.category \in LEAD_CATEGORIES \cup {None}
         /\ \A c \in WireCategories :
              NamesCategory(assigned.profile, c) => AssignedCategory = c
    /\ \A i \in 1..Len(sent) :
         (/\ ~answers.falsy
          /\ answers.text # <<>>
          /\ \A c \in WireCategories : ~NamesCategory(answers, c))
           => RecordCategory(sent[i]) = "nurture"

\* ------------------------------------------------- the record builder alone
\* the clock readings tried, in ticks of half a second, and the number of
\* builds tried
MaxClock == 2
MaxBuilds == 2

\* Math.floor((Date.now() - startTime) / 1000)
MillisPerSecond == 1000
ClockTick == MillisPerSecond \div 2

\* the values crypto.randomUUID() can return
UUIDs == {"uuid-1", "uuid-2"}

\* the inputs of a build: the data, the step, the start time, and the
\* session id the caller merged into the data, if any (the 2-page container
\* does, the extended container does not)
BuildInputs ==
  [data : {[d EXCEPT !.lead_category = c] :
             d \in InitialLeadCaptureData({{"US"}}), c \in {None, "bch", "lum-l1"}},
   step : {"1", "2"},
   startTime : {0},
   sessionId : {None, "session-1"}]

\* submitFormData: the payload with the fields it reads from the clock and
\* from the random source; now is Date.now(), uuid is crypto.randomUUID()
webhookPayload(in, now, uuid) ==
  WebhookPayload(in.data, in.step, TRUE)
    @@ [session_id |-> IF in.sessionId # None THEN in.sessionId ELSE uuid,
        total_time_spent |-> (now - in.startTime) \div MillisPerSecond,
        created_at |-> now]

InitBuild ==
  /\ variant = "builder"
  /\ answers \in BuildInputs
  /\ currentStep = "1"
  /\ formData = EmptyData
  /\ isSubmitting = FALSE
  /\ isSubmitted = FALSE
  /\ showEvaluationAnimation = FALSE
  /\ showNurtureAnimation = FALSE
  /\ evaluatedLeadCategory = None
  /\ handlers = EmptyBag
  /\ timers = [evaluation |-> 0, nurture |-> 0]
  /\ sent = <<>>
  /\ assigned = NoAssignment
  /\ backs = 0
  /\ fails = 0
  /\ entered = EmptyData
  /\ logged = {}
  /\ triggeredEvents = <<>>

\* one call of submitFormData with the same arguments as the calls before
\* it; the clock does not run backwards between calls
build(now, uuid) ==
  /\ Len(sent) < MaxBuilds
  /\ sent # <<>> => now >= sent[Len(sent)].created_at
  /\ sent' = Append(sent, webhookPayload(answers, now, uuid))
  /\ UNCHANGED <<variant, triggeredEvents, answers, entered, logged, currentStep, formData, isSubmitting,
                 isSubmitted, showEvaluationAnimation, showNurtureAnimation,
                 evaluatedLeadCategory, handlers, timers, assigned, backs, fails>>

NextBuild ==
  \E k \in 0..MaxClock, uuid \in UUIDs : build(k * ClockTick, uuid)

SpecBuild == InitBuild /\ [][NextBuild]_vars

\* C21: the records built from identical inputs are identical in every
\* field, created_at, session_id and total_time_spent included.
C21_BuildIsIdempotent ==
  variant = "builder" =>
    \A i, j \in 1..Len(sent) : sent[i] = sent[j]

\* ------------------------------------------------------------- progress
\* pending calls return (or throw) and scheduled timers fire
Fairness ==
  /\ WF_vars(\E h \in BagToSet(handlers) : onSubmitPage1Route(h))
  /\ WF_vars(\E h \in BagToSet(handlers) : CallSubmitFormData(h))
  /\ WF_vars(\E h \in BagToSet(handlers) :
               SubmitFormDataReturns(h) \/ SubmitFormDataThrows(h))
  /\ WF_vars(handleEvaluationComplete)
  /\ WF_vars(nurtureAnimationComplete)

SpecLive == Spec /\ Fairness

\* C22: whenever isSubmitting is true, eventually it is false again or the
\* session is submitted, and then a form is on screen again unless the
\* session is submitted.
C22_NeverStuck ==
  /\ isSubmitting ~> (~isSubmitting \/ isSubmitted)
  /\ (isSubmitting /\ ~isSubmitted) ~> (FormVisible \/ isSubmitted)

\* C22 happens: a webhook call failed and the form is on screen again
C22_Witness ==
  /\ fails > 0
  /\ ~isSubmitting
  /\ ~isSubmitted
  /\ FormVisible

\* ------------------------------------------------- sessions that edit
\* the sessions whose answers are edited: a parent with a non-spam grade
\* value, in the grades and with the scholarship answers that change the
\* category
EditSessions ==
  {a \in InitialLeadCaptureData({{"US"}}) \cup ExtendedAnswers :
     /\ a.formFillerType = "parent"
     /\ a.gpaValue = "8.5"
     /\ a.currentGrade \in {"7_below", "9", "masters"}
     /\ a.scholarshipRequirement \in {"scholarship_optional", "full_scholarship"}
     /\ a.applicationPreparation \in {None, "researching_now"}
     /\ a.targetUniversities \in {None, "top_20_50"}}

InitEdit == Init /\ answers \in EditSessions

\* after a back navigation the user changes answers in the form on screen:
\* any answer on Page 1 / Step 1, the academic answers on Step 2
editAnswers(new) ==
  /\ backs > 0
  /\ new \in EditSessions
  /\ new # answers
  /\ new.targetGeographies = answers.targetGeographies
  /\ \/ Page1Shown
     \/ Step1Shown
     \/ /\ Step2Shown
        /\ \A k \in Step1Keys : new[k] = answers[k]
  /\ answers' = new
  /\ UNCHANGED <<variant, triggeredEvents, entered, logged, currentStep, formData, isSubmitting, isSubmitted,
                 showEvaluationAnimation, showNurtureAnimation,
                 evaluatedLeadCategory, handlers, timers, sent, assigned, backs,
                 fails>>

NextEdit ==
  \/ Next
  \/ \E new \in EditSessions : editAnswers(new)

SpecEdit == InitEdit /\ [][NextEdit]_vars

\* C23: whenever a form after the categorization is on screen, the stored
\* category is the one computed from the stored answers, those of the
\* latest advance, and the form shown is the one of that category.
C23_CategoryIsFresh ==
  /\ (variant = "twopage" /\ currentStep = "2" /\ FormVisible) =>
       /\ formData.lead_category = Page1Category(formData)
       /\ Page2AShown <=> Page1Category(formData) \in QualifiedList
  /\ (variant = "extended" /\ currentStep \in {"2.5", "3"} /\ FormVisible) =>
       /\ formData.lead_category = Step2Category(formData)
       /\ currentStep = "2.5" => Step2Category(formData) = "NURTURE"

\* ------------------------------------------------- decisions and sinks
\* what completing Page 1 decides for the entered answers: a direct
\* submission, or the second page of the category
Page1Decision ==
  LET data == FormValues(Page1Keys)
  IN IF data.currentGrade = "7_below" \/ data.formFillerType = "student"
       THEN "submit"
     ELSE IF Page1Category(data) \in QualifiedList THEN "2A" ELSE "2B"

C25_SubmittedOnlyAfterSuccess ==
  [][/\ (~isSubmitted /\ isSubmitted') =>
          \E h \in BagToSet(handlers) : SubmitFormDataReturns(h)
     /\ (\E h \in BagToSet(handlers) : SubmitFormDataThrows(h)) =>
          /\ isSubmitted' = isSubmitted
          /\ currentStep' = currentStep
          /\ ~isSubmitting']_vars

\* ------------------------------------------------- the evaluation timer
\* C26: handleEvaluationComplete runs once for each completion of the
\* evaluated step: when it runs the animation is still shown (no earlier
\* run has ended it and the user has not moved since), the session is not
\* submitted, and the category in the store is the one the submit handler
\* computed.
C26_EvaluationCompletesOnce ==
  [][handleEvaluationComplete =>
       /\ showEvaluationAnimation
       /\ ~isSubmitted
       /\ formData.lead_category = assigned.category]_vars

\* ------------------------------------------------------- diagnostics
\* the value is not empty and names no category
InvalidCategory(value) ==
  ~value.falsy /\ value.text # <<>> /\ sanitizeLeadCategory(value) = None

\* C27: once submitFormData or trackFormStep has built a record from a
\* non-empty lead category that is not valid, a diagnostic carrying the
\* original value has been logged.
C27_InvalidCategoryLogged ==
  (variant = "sanitizer" /\ InvalidCategory(answers) /\ sent # <<>>) =>
     \E d \in logged : d.category = answers

\* ------------------------------------------------- the record's key set
\* the payload fields submitFormData copies from data as they are, without
\* "|| null": a field data does not have is undefined in the payload
RawFields == {"formFillerType", "currentGrade", "scholarshipRequirement"}

\* JSON.stringify(webhookPayload): the keys written to the request body; a
\* key whose value is undefined is left out
JSONStringifyKeys(payload) ==
  {k \in DOMAIN payload : ~(k \in RawFields /\ payload[k] = None)}

\* C28: every outbound record is written with the full key set: no field
\* is left out because it has not been collected yet.
C28_StableKeySet ==
  \A i \in 1..Len(sent) : JSONStringifyKeys(sent[i]) = DOMAIN sent[i]

\* ------------------------------------------------- the pixel events alone
\* import.meta.env.VITE_ENVIRONMENT?.trim() || 'dev'
Environment == "dev"

getEventName(eventPrefix) == eventPrefix \o "_" \o Environment

\* the events Page 1, the direct submission and the landing page fire
PIXEL_EVENTS ==
  [PARENT_EVENT |-> getEventName("adm_prnt_event"),
   QUALIFIED_PARENT |-> getEventName("adm_qualfd_prnt"),
   DISQUALIFIED_PARENT |-> getEventName("adm_disqualfd_prnt"),
   SPAM_PARENT |-> getEventName("adm_spam_prnt"),
   SPAM_STUDENT |-> getEventName("adm_spam_stdnt"),
   STUDENT_EVENT |-> getEventName("adm_stdnt"),
   QUALIFIED_STUDENT |-> getEventName("adm_qualfd_stdnt"),
   DISQUALIFIED_STUDENT |-> getEventName("adm_disqualfd_stdnt"),
   PAGE_VIEW |-> getEventName("adm_page_view"),
   CTA_HERO |-> getEventName("adm_cta_hero"),
   CTA_HEADER |-> getEventName("adm_cta_header"),
   PAGE_1_CONTINUE |-> getEventName("adm_page_1_continue"),
   FORM_COMPLETE |-> getEventName("adm_form_complete"),
   BCH_PAGE_1_CONTINUE |-> getEventName("adm_bch_page_1_continue"),
   BCH_FORM_COMPLETE |-> getEventName("adm_bch_form_complete"),
   LUM_L1_PAGE_1_CONTINUE |-> getEventName("adm_lum_l1_page_1_continue"),
   LUM_L1_FORM_COMPLETE |-> getEventName("adm_lum_l1_form_complete"),
   LUM_L2_PAGE_1_CONTINUE |-> getEventName("adm_lum_l2_page_1_continue"),
   LUM_L2_FORM_COMPLETE |-> getEventName("adm_lum_l2_form_complete"),
   QUALIFIED_PARENT_PAGE_1_CONTINUE |-> getEventName("adm_qualfd_prnt_page_1_continue"),
   QUALIFIED_PARENT_FORM_COMPLETE |-> getEventName("adm_qualfd_prnt_form_complete"),
   QUALIFIED_STUDENT_PAGE_1_CONTINUE |-> getEventName("adm_qualfd_stdnt_page_1_continue"),
   QUALIFIED_STUDENT_FORM_COMPLETE |-> getEventName("adm_qualfd_stdnt_form_complete")]

\* pixel.ts isQualifiedLead
isQualifiedLead(leadCategory) == leadCategory \in {"bch", "lum-l1", "lum-l2"}

\* firePageOneCompleteEvents: the events it tracks, in order
firePageOneCompleteEvents(data) ==
  LET isParent == data.formFillerType = "parent"
      isStudent == data.formFillerType = "student"
      isSpam == isSpamLead(data)
      leadCategory == data.lead_category
      isQualified == isQualifiedLead(leadCategory)
  IN (IF isParent
        THEN IF isSpam
               THEN <<PIXEL_EVENTS.SPAM_PARENT>>
             ELSE <<PIXEL_EVENTS.PARENT_EVENT>> \o
                  (IF isQualified
                     THEN <<PIXEL_EVENTS.QUALIFIED_PARENT,
                            PIXEL_EVENTS.QUALIFIED_PARENT_PAGE_1_CONTINUE>>
                     ELSE <<PIXEL_EVENTS.DISQUALIFIED_PARENT>>)
        ELSE <<>>)
     \o
     (IF isStudent
        THEN <<PIXEL_EVENTS.STUDENT_EVENT>> \o
             (IF isSpam
                THEN <<PIXEL_EVENTS.SPAM_STUDENT, PIXEL_EVENTS.DISQUALIFIED_STUDENT>>
              ELSE IF wouldStudentQualifyAsParent(data)
                THEN <<PIXEL_EVENTS.QUALIFIED_STUDENT,
                       PIXEL_EVENTS.QUALIFIED_STUDENT_PAGE_1_CONTINUE>>
              ELSE <<PIXEL_EVENTS.DISQUALIFIED_STUDENT>>)
        ELSE <<>>)
     \o <<PIXEL_EVENTS.PAGE_1_CONTINUE>>
     \o
     (IF leadCategory = "bch" THEN <<PIXEL_EVENTS.BCH_PAGE_1_CONTINUE>>
      ELSE IF leadCategory = "lum-l1" THEN <<PIXEL_EVENTS.LUM_L1_PAGE_1_CONTINUE>>
      ELSE IF leadCategory = "lum-l2" THEN <<PIXEL_EVENTS.LUM_L2_PAGE_1_CONTINUE>>
      ELSE <<>>)

\* fireFormCompleteEvents: the events it tracks, in order
fireFormCompleteEvents(data) ==
  LET isParent == data.formFillerType = "parent"
      isStudent == data.formFillerType = "student"
      leadCategory == data.lead_category
      isQualified == isQualifiedLead(leadCategory)
  IN <<PIXEL_EVENTS.FORM_COMPLETE>>
     \o
     (IF leadCategory = "bch" THEN <<PIXEL_EVENTS.BCH_FORM_COMPLETE>>
      ELSE IF leadCategory = "lum-l1" THEN <<PIXEL_EVENTS.LUM_L1_FORM_COMPLETE>>
      ELSE IF leadCategory = "lum-l2" THEN <<PIXEL_EVENTS.LUM_L2_FORM_COMPLETE>>
      ELSE <<>>)
     \o
     (IF isParent /\ isQualified
        THEN <<PIXEL_EVENTS.QUALIFIED_PARENT_FORM_COMPLETE>> ELSE <<>>)
     \o
     (IF isStudent /\ wouldStudentQualifyAsParent(data)
        THEN <<PIXEL_EVENTS.QUALIFIED_STUDENT_FORM_COMPLETE>> ELSE <<>>)

\* the events of the list
Fired(events) == {events[i] : i \in 1..Len(events)}

\* the Page 1 answers of the sessions followed: every filler, grade,
\* scholarship answer, grade value and non-empty choice of geographies
EventSessions ==
  UNION {InitialLeadCaptureData({t}) : t \in (SUBSET TARGET_GEOGRAPHIES) \ {{}}}

\* the container is mounted: its effect has fired the page view
InitEvents ==
  /\ variant = "events"
  /\ answers \in EventSessions
  /\ currentStep = "1"
  /\ formData = EmptyData
  /\ isSubmitting = FALSE
  /\ isSubmitted = FALSE
  /\ showEvaluationAnimation = FALSE
  /\ showNurtureAnimation = FALSE
  /\ evaluatedLeadCategory = None
  /\ handlers = EmptyBag
  /\ timers = [evaluation |-> 0, nurture |-> 0]
  /\ sent = <<>>
  /\ assigned = NoAssignment
  /\ backs = 0
  /\ fails = 0
  /\ entered = EmptyData
  /\ logged = {}
  /\ triggeredEvents = <<PIXEL_EVENTS.PAGE_VIEW>>

\* a call to action of the landing page or the header is clicked before the
\* form is filled: trackPixelEvent adds the event to the store
fireCTAEvents(ctaType) ==
  /\ formData = EmptyData
  /\ handlers = EmptyBag
  /\ LET name == IF ctaType = "hero" THEN PIXEL_EVENTS.CTA_HERO
                 ELSE PIXEL_EVENTS.CTA_HEADER
     IN /\ name \notin Fired(triggeredEvents)
        /\ triggeredEvents' = Append(triggeredEvents, name)
  /\ UNCHANGED <<variant, answers, entered, logged, currentStep, formData,
                 isSubmitting, isSubmitted, showEvaluationAnimation,
                 showNurtureAnimation, evaluatedLeadCategory, handlers, timers,
                 sent, assigned, backs, fails>>

\* onSubmitPage1 up to await trackPageCompletion.  The handler is the one of
\* the render on screen: its triggeredEvents is the store's list of that
\* render.  updateFormData(data) changes formData, and the effect of the
\* render that follows fires the page view again.
onSubmitPage1Events(data) ==
  /\ currentStep = "1"
  /\ ~isSubmitted
  /\ InFlight < MaxInFlight
  /\ formData' = Spread(formData, data, Page1Keys)
  /\ triggeredEvents' = Append(triggeredEvents, PIXEL_EVENTS.PAGE_VIEW)
  /\ handlers' = Suspend([kind |-> "page1", pc |-> "trackPageCompletion",
                          data |-> data, formData |-> formData,
                          finalData |-> EmptyData,
                          triggeredEvents |-> triggeredEvents])
  /\ UNCHANGED <<variant, answers, entered, logged, currentStep, isSubmitting,
                 isSubmitted, showEvaluationAnimation, showNurtureAnimation,
                 evaluatedLeadCategory, timers, sent, assigned, backs, fails>>

\* onSubmitPage1 resumed after trackPageCompletion, up to its next await or
\* its end: the category is stored, and for any grade above 7 the Page 1
\* events fire; the change of formData fires the page view
onSubmitPage1FireEvents(h) ==
  /\ h.pc = "trackPageCompletion"
  /\ LET data == h.data
         leadCategory == Page1Category(data)
         withCategory == [EmptyData EXCEPT !.lead_category = leadCategory]
         finalData ==
           IF data.currentGrade = "7_below"
             THEN Spread(Spread(h.formData, data, Page1Keys), withCategory, {"lead_category"})
             ELSE Spread(Spread(EmptyData, data, Page1Keys), withCategory, {"lead_category"})
     IN /\ formData' = [formData EXCEPT !.lead_category = leadCategory]
        /\ triggeredEvents' =
             IF data.currentGrade = "7_below"
               THEN Append(triggeredEvents, PIXEL_EVENTS.PAGE_VIEW)
               ELSE Append(triggeredEvents \o firePageOneCompleteEvents(finalData),
                           PIXEL_EVENTS.PAGE_VIEW)
        /\ IF data.currentGrade = "7_below" \/ data.formFillerType = "student"
             THEN /\ isSubmitting' = TRUE
                  /\ handlers' = Resume(h, [h EXCEPT !.pc = "trackFormSubmission",
                                                     !.finalData = finalData])
                  /\ UNCHANGED currentStep
             ELSE /\ currentStep' = "2"
                  /\ handlers' = Finish(h)
                  /\ UNCHANGED isSubmitting
  /\ UNCHANGED <<variant, answers, entered, logged, isSubmitted,
                 showEvaluationAnimation, showNurtureAnimation,
                 evaluatedLeadCategory, timers, sent, assigned, backs, fails>>

\* the direct submission resumed after trackFormSubmission: the remaining
\* events fire and submitFormData is called with the handler's
\* triggeredEvents; the webhook answers ok
onSubmitPage1SubmitEvents(h) ==
  /\ h.pc = "trackFormSubmission"
  /\ triggeredEvents' =
       triggeredEvents \o
         (IF h.data.currentGrade = "7_below"
            THEN firePageOneCompleteEvents(h.finalData)
            ELSE fireFormCompleteEvents(h.finalData))
  /\ sent' = Append(sent,
       WebhookPayload(h.finalData, "1", TRUE) @@
         [triggeredEvents |->
            IF Len(h.triggeredEvents) > 0 THEN h.triggeredEvents ELSE None])
  /\ isSubmitting' = FALSE
  /\ isSubmitted' = TRUE
  /\ handlers' = Finish(h)
  /\ UNCHANGED <<variant, answers, entered, logged, currentStep, formData,
                 showEvaluationAnimation, showNurtureAnimation,
                 evaluatedLeadCategory, timers, assigned, backs, fails>>

NextEvents ==
  \/ \E ctaType \in {"hero", "header"} : fireCTAEvents(ctaType)
  \/ onSubmitPage1Events(FormValues(Page1Keys))
  \/ \E h \in BagToSet(handlers) : onSubmitPage1FireEvents(h)
  \/ \E h \in BagToSet(handlers) : onSubmitPage1SubmitEvents(h)

SpecEvents == InitEvents /\ [][NextEvents]_vars

\* C30: the triggeredEvents of every record handed to the webhook contains
\* every event tracked in the session up to that call, the events the
\* submitting handler has just fired included.
C30_PayloadHasEveryEvent ==
  [][sent' # sent =>
       /\ sent'[Len(sent')].triggeredEvents # None
       /\ Fired(triggeredEvents') \subseteq Fired(sent'[Len(sent')].triggeredEvents)]_vars

\* the profile with a parent as the form filler
AsParent(data) == [data EXCEPT !.formFillerType = "parent"]

\* C29: a student with a non-spam profile whose Page 1 events have fired
\* has the qualified-student event exactly when the categorizer, applied to
\* the same answers with a parent as form filler, returns bch, lum-l1 or
\* lum-l2, and the disqualified-student event otherwise.
C29_StudentSimulationMatchesParent ==
  (/\ variant = "events"
   /\ answers.formFillerType = "student"
   /\ ~isSpamLead(answers)
   /\ PIXEL_EVENTS.STUDENT_EVENT \in Fired(triggeredEvents)) =>
     LET asParent == determineLeadCategory(AllArguments(AsParent(answers)))
     IN /\ PIXEL_EVENTS.QUALIFIED_STUDENT \in Fired(triggeredEvents)
             <=> asParent \in {"bch", "lum-l1", "lum-l2"}
        /\ PIXEL_EVENTS.DISQUALIFIED_STUDENT \in Fired(triggeredEvents)
             <=> asParent \notin {"bch", "lum-l1", "lum-l2"}
        /\ wouldStudentQualifyAsParent(answers)
             <=> asParent \in {"bch", "lum-l1", "lum-l2"}

\* C29 happens: a grade 11 student aiming outside the US with a partial
\* scholarship, a lum-l2 lead had a parent filled the form, has fired the
\* qualified-student event
C29_Witness ==
  /\ variant = "events"
  /\ answers.formFillerType = "student"
  /\ answers.currentGrade = "11"
  /\ answers.scholarshipRequirement = "partial_scholarship"
  /\ "US" \notin answers.targetGeographies
  /\ ~isSpamLead(answers)
  /\ determineLeadCategory(AllArguments(AsParent(answers))) = "lum-l2"
  /\ PIXEL_EVENTS.QUALIFIED_STUDENT \in Fired(triggeredEvents)

====
